---- MODULE Spec2Model ----
(***************************************************************************)
(* Umeboshi: the Event / Routine scheduling-and-execution state machine.   *)
(*                                                                         *)
(* State: the Event table, the Celery queue of process_event tasks, the    *)
(* workers executing them, the per-Event cache locks, the schedule() calls *)
(* in flight and the clock.  Time is counted in milliseconds.              *)
(***************************************************************************)
EXTENDS Integers, Sequences, FiniteSets, TLC

VARIABLES
    conf,            \* the Routine classes of the deployment (class attributes)
    has_cache_lock,  \* utils.py: hasattr(cache, 'lock') at import time
    now,             \* the clock, in ms
    events,          \* the Event table: pk -> row
    nextId,          \* the table's auto-increment primary key
    queue,           \* Celery queue of process_event(event_id) messages
    workers,         \* worker -> the process_event task it executes
    locks,           \* cache: lock key of an Event id -> entry
    calls,           \* caller -> the schedule() or retry_schedule() call it executes
    runs,            \* pk -> how many times routine.run() was invoked for the row
    registries       \* Runner.registry, scheduled.py's register, the last call on them

vars == <<conf, has_cache_lock, now, events, nextId, queue, workers, locks, calls, runs,
          registries>>

-----------------------------------------------------------------------------
(* Bounds of the model *)

MaxEvents == 2
MaxChainEvents == 3
MaxQueue == 2
MaxWorkers == 2
MaxCalls == 1
MaxRaceCalls == 2
MaxTicks == 1
TickMs == 16000
MaxLifetimes == 1

Ids == 1..MaxEvents
Workers == 1..MaxWorkers
Callers == 1..MaxCalls
RaceCallers == 1..MaxRaceCalls

-----------------------------------------------------------------------------
(* Program constants *)

\* utils.py: cache.lock(lock_key.format(id), expire=15), in seconds
expire == 15
\* utils.py: simple_lock(lock_key, timeout=5000): the cache entry's lifetime
\* (cache.add takes seconds) and the waiting budget (counted in ms)
timeout == 5000
\* tasks.py: @task(soft_time_limit=300), in seconds
soft_time_limit == 300
\* models.py: timedelta(hours=1), in ms
HourMs == 3600000
\* models.py: the moment the module is imported (the default argument
\* now() + timedelta(hours=1) of retry_schedule is evaluated then)
ImportNow == 0

-----------------------------------------------------------------------------
(* Optional values: None is <<>>, a value v is <<v>> *)

None == <<>>
Some(v) == <<v>>
NoGroup == "<None>"

-----------------------------------------------------------------------------
(* Event.Status and TriggerBehavior *)

CREATED == "CREATED"
FAILED == "FAILED"
CANCELLED == "CANCELLED"
BROKEN == "BROKEN"
SUCCESSFUL == "SUCCESSFUL"
Status == {CREATED, FAILED, CANCELLED, BROKEN, SUCCESSFUL}

DELETE_AFTER_PROCESSING == "DELETE_AFTER_PROCESSING"
DEFAULT == "DEFAULT"
SCHEDULE_ONCE == "SCHEDULE_ONCE"
RUN_ONCE == "RUN_ONCE"
RUN_AND_SCHEDULE_ONCE == "RUN_AND_SCHEDULE_ONCE"
LAST_ONLY == "LAST_ONLY"
TriggerBehavior == {DELETE_AFTER_PROCESSING, DEFAULT, SCHEDULE_ONCE, RUN_ONCE,
                    RUN_AND_SCHEDULE_ONCE, LAST_ONLY}
\* Routine.behavior = None (the class attribute's default)
Unset == "<unset>"
\* a behavior attribute that is not one of TriggerBehavior's values
Unrecognised == "<unrecognised>"

-----------------------------------------------------------------------------
(* Arguments and their serialization *)

\* the args a caller passes to schedule(): None (omitted) or a list
NoArgs == [none |-> TRUE, items |-> <<>>]
ArgList(s) == [none |-> FALSE, items |-> s]
ArgValues == {NoArgs, ArgList(<<>>), ArgList(<<"x">>)}

\* pickle.dumps: None is "N.", a list is "(l" item "a" ... "."
RECURSIVE PickleItems(_)
PickleItems(s) ==
    IF s = <<>> THEN <<>> ELSE <<s[1], "a">> \o PickleItems(Tail(s))

marshal_data(data) ==
    IF data.none THEN <<"N", ".">>
    ELSE <<"(", "l">> \o PickleItems(data.items) \o <<".">>

\* pickle.loads
unmarshal_data(blob) ==
    IF blob[1] = "N" THEN NoArgs
    ELSE ArgList([i \in 1..((Len(blob) - 3) \div 2) |-> blob[2 * i + 1]])

\* hashlib.md5(data).hexdigest(): a digest folded over the bytes
TokenCode(t) ==
    CASE t = "N" -> 1 [] t = "." -> 2 [] t = "(" -> 3 [] t = "l" -> 4
      [] t = "a" -> 5 [] t = "x" -> 6 [] OTHER -> 7

RECURSIVE Digest(_, _)
Digest(h, blob) ==
    IF blob = <<>> THEN h
    ELSE Digest((h * 31 + TokenCode(blob[1])) % 65536, Tail(blob))

hash_data(blob) == Digest(7, blob)

-----------------------------------------------------------------------------
(* The Event model *)

\* Event.args of an instance loaded from the table
has_data(row) == Len(row.data_pickled) <= 0
args(row) == IF has_data(row) THEN ArgList(<<>>) ELSE unmarshal_data(row.data_pickled)

\* a faulty save(): the arguments are marshaled, the hash is not recomputed
SavedRowStaleHash(inst, data) == [inst EXCEPT !.data_pickled = marshal_data(data)]

\* Event.save(): the arguments are marshaled and hashed, all fields written
SavedRow(inst, data) ==
    [inst EXCEPT !.data_pickled = marshal_data(data),
                 !.data_hash = hash_data(marshal_data(data))]

\* a faulty save(): the row is rescheduled to the time of the import
save_reschedules(tbl, pk, inst) ==
    (pk :> [SavedRow(inst, args(inst)) EXCEPT !.datetime_scheduled = ImportNow]) @@ tbl

save(tbl, pk, inst) == (pk :> SavedRow(inst, args(inst))) @@ tbl

\* Event.objects.create(...): a new instance with its args set, then save()
NewEvent(trigger, group, scheduled, data) ==
    SavedRow([trigger_name |-> trigger,
              task_group |-> group,
              data_pickled |-> <<>>,
              data_hash |-> 0,
              datetime_scheduled |-> scheduled,
              datetime_processed |-> None,
              status |-> CREATED], data)

create(tbl, pk, trigger, group, scheduled, data) ==
    (pk :> NewEvent(trigger, group, scheduled, data)) @@ tbl

\* Event.delete()
delete(tbl, pk) == [i \in (DOMAIN tbl) \ {pk} |-> tbl[i]]

\* a faulty cancel(): the status is set, datetime_processed is not
cancel_status_only(tbl, pk, inst, t) ==
    save(tbl, pk, [inst EXCEPT !.status = CANCELLED])

\* Event.cancel() on an instance
cancel(tbl, pk, inst, t) ==
    save(tbl, pk, [inst EXCEPT !.datetime_processed = Some(t), !.status = CANCELLED])

-----------------------------------------------------------------------------
(* The deployment: Routine classes and the registry *)

\* the Routine subclasses the deployment declares
Classes == DOMAIN conf

\* the class attributes a Routine subclass declares (routines.py: trigger_name,
\* task_group, behavior), and whether the `scheduled` decorator registered it
RoutineClass(t, g, b, r) ==
    [trigger_name |-> t, task_group |-> g, behavior |-> b, registered |-> r]

\* a deployment of one Routine class
Deployment(b, g, r) == [c \in {"A"} |-> RoutineClass("a", g, b, r)]

\* deployments of two Routine classes with distinct trigger names: B has the
\* task_group "g", A shares it or has none, and both have the same behavior
GroupDeployments ==
    { [c \in {"A", "B"} |->
          IF c = "A" THEN RoutineClass("a", g, b, TRUE) ELSE RoutineClass("b", "g", b, TRUE)] :
        b \in {SCHEDULE_ONCE, RUN_ONCE, RUN_AND_SCHEDULE_ONCE, LAST_ONLY,
               DELETE_AFTER_PROCESSING},
        g \in {NoGroup, "g"} }

Deployments ==
    { Deployment(b, g, TRUE) : b \in TriggerBehavior \cup {Unset}, g \in {NoGroup, "g"} }
    \cup { Deployment(DEFAULT, NoGroup, FALSE), Deployment(Unrecognised, NoGroup, TRUE) }

\* scheduled.py: register, trigger_name -> class
register == { conf[c].trigger_name : c \in {k \in Classes : conf[k].registered} }

\* Event.get_routine_class(): the class registered under the trigger name
get_routine_class(trigger) ==
    CHOOSE c \in Classes : conf[c].registered /\ conf[c].trigger_name = trigger

-----------------------------------------------------------------------------
(* The registries: Runner.registry (runner.py) and register (scheduled.py),
   dictionaries from a trigger name to the dotted path of a class *)

\* the Routine types offered for registration: two share a trigger name, one
\* has none
RoutineTypes ==
    { [path |-> "m.A", trigger_name |-> Some("a")],
      [path |-> "m.B", trigger_name |-> Some("a")],
      [path |-> "m.C", trigger_name |-> Some("b")],
      [path |-> "m.N", trigger_name |-> None] }

\* the names looked up
TriggerNames == { t.trigger_name : t \in RoutineTypes }

NoCall == [op |-> "", key |-> None, path |-> "", result |-> ""]

NoRegistries == [runner |-> <<>>, scheduled |-> <<>>, call |-> NoCall]

\* d[key] = value
SetItem(d, key, value) == [k \in (DOMAIN d) \cup {key} |-> IF k = key THEN value ELSE d[k]]

\* Runner.register(cls): NoRoutineTriggerException without a trigger_name; on
\* a name already registered the arguments of logger.warning are evaluated
\* first, and self.register[...] subscripts the bound method: TypeError
RunnerRegisterResult(d, t) ==
    IF t.trigger_name = None THEN "NoRoutineTriggerException"
    ELSE IF t.trigger_name \in DOMAIN d THEN "TypeError"
    ELSE "ok"

RunnerRegister(t) ==
    /\ registries' =
          [registries EXCEPT
              !.runner = IF RunnerRegisterResult(@, t) = "ok"
                         THEN SetItem(@, t.trigger_name, t.path) ELSE @,
              !.call = [op |-> "Runner.register", key |-> t.trigger_name, path |-> t.path,
                        result |-> RunnerRegisterResult(registries.runner, t)]]
    /\ UNCHANGED <<conf, has_cache_lock, now, events, nextId, queue, workers, locks,
                   calls, runs>>

\* a lookup: the registered path, or UnknownTriggerException
Lookup(d, key) == IF key \in DOMAIN d THEN d[key] ELSE "UnknownTriggerException"

\* Runner.get_routine_class(trigger_name)
RunnerGetRoutineClass(key) ==
    /\ registries' =
          [registries EXCEPT
              !.call = [op |-> "Runner.get_routine_class", key |-> key, path |-> "",
                        result |-> Lookup(registries.runner, key)]]
    /\ UNCHANGED <<conf, has_cache_lock, now, events, nextId, queue, workers, locks,
                   calls, runs>>

\* scheduled.py: the decorator warns on a registered name (the logging call
\* does not raise) and stores the class under cls.trigger_name, None included
Scheduled(t) ==
    /\ registries' =
          [registries EXCEPT
              !.scheduled = SetItem(@, t.trigger_name, t.path),
              !.call = [op |-> "scheduled", key |-> t.trigger_name, path |-> t.path,
                        result |-> "ok"]]
    /\ UNCHANGED <<conf, has_cache_lock, now, events, nextId, queue, workers, locks,
                   calls, runs>>

\* Event.get_routine_class() on an Event with this trigger_name
EventGetRoutineClass(key) ==
    /\ registries' =
          [registries EXCEPT
              !.call = [op |-> "Event.get_routine_class", key |-> key, path |-> "",
                        result |-> Lookup(registries.scheduled, key)]]
    /\ UNCHANGED <<conf, has_cache_lock, now, events, nextId, queue, workers, locks,
                   calls, runs>>

-----------------------------------------------------------------------------
(* Routine.schedule(): the trigger behavior policy *)

\* a faulty group_check: the trigger name is compared even when the class
\* has a task_group
group_check_trigger_name(cls, row) == row.trigger_name = conf[cls].trigger_name

\* group_check: the task_group if the class has one, else the trigger name
group_check(cls, row) ==
    IF conf[cls].task_group # NoGroup
    THEN row.task_group = conf[cls].task_group
    ELSE row.trigger_name = conf[cls].trigger_name

\* a faulty default: a behavior that is not a TriggerBehavior value is taken
\* as SCHEDULE_ONCE
effective_behavior_once(cls) ==
    IF conf[cls].behavior \in TriggerBehavior THEN conf[cls].behavior ELSE SCHEDULE_ONCE

\* behavior = cls.behavior if it is a TriggerBehavior value, else DEFAULT
effective_behavior(cls) ==
    IF conf[cls].behavior \in TriggerBehavior THEN conf[cls].behavior ELSE DEFAULT

\* Event.objects.filter(data_hash=hashed_data, **group_check)
Matching(tbl, cls, h) ==
    { i \in DOMAIN tbl : tbl[i].data_hash = h /\ group_check(cls, tbl[i]) }

\* a faulty RUN_AND_SCHEDULE_ONCE query: only CREATED events count
RunAndScheduleOnceDupCreatedOnly(tbl, cls, h) ==
    \E i \in Matching(tbl, cls, h) : tbl[i].status = CREATED

\* the three queries that raise DuplicateEvent
RunAndScheduleOnceDup(tbl, cls, h) ==
    \E i \in Matching(tbl, cls, h) : tbl[i].status \in {SUCCESSFUL, CREATED}

RunOnceDup(tbl, cls, h) ==
    \E i \in Matching(tbl, cls, h) : tbl[i].status = SUCCESSFUL

\* a faulty SCHEDULE_ONCE query: the data_hash filter is missing
ScheduleOnceDupAnyData(tbl, cls, h) ==
    \E i \in DOMAIN tbl : group_check(cls, tbl[i]) /\ tbl[i].datetime_processed = None

ScheduleOnceDup(tbl, cls, h) ==
    \E i \in Matching(tbl, cls, h) : tbl[i].datetime_processed = None

\* a faulty check that is atomic with the insert: a call of the same class and
\* args that has passed its check and not yet inserted counts as a duplicate
IsDuplicateOrPending(tbl, cls, h) ==
    \/ effective_behavior(cls) = RUN_AND_SCHEDULE_ONCE /\ RunAndScheduleOnceDup(tbl, cls, h)
    \/ effective_behavior(cls) = RUN_ONCE /\ RunOnceDup(tbl, cls, h)
    \/ effective_behavior(cls) = SCHEDULE_ONCE /\ ScheduleOnceDup(tbl, cls, h)
    \/ /\ effective_behavior(cls) \in {RUN_AND_SCHEDULE_ONCE, SCHEDULE_ONCE}
       /\ \E d \in DOMAIN calls :
             /\ calls[d].pc = "create" /\ calls[d].cls = cls
             /\ hash_data(marshal_data(calls[d].data)) = h

IsDuplicate(tbl, cls, h) ==
    \/ effective_behavior(cls) = RUN_AND_SCHEDULE_ONCE /\ RunAndScheduleOnceDup(tbl, cls, h)
    \/ effective_behavior(cls) = RUN_ONCE /\ RunOnceDup(tbl, cls, h)
    \/ effective_behavior(cls) = SCHEDULE_ONCE /\ ScheduleOnceDup(tbl, cls, h)

\* a faulty LAST_ONLY query: the data_hash filter is missing
WaitingEventsAnyData(tbl, cls, h) ==
    IF effective_behavior(cls) = LAST_ONLY
    THEN { i \in DOMAIN tbl : group_check(cls, tbl[i]) /\ tbl[i].datetime_processed = None }
    ELSE {}

\* LAST_ONLY: the waiting events, fetched when the loop starts
WaitingEvents(tbl, cls, h) ==
    IF effective_behavior(cls) = LAST_ONLY
    THEN { i \in Matching(tbl, cls, h) : tbl[i].datetime_processed = None }
    ELSE {}

\* a set of primary keys as the list the query returns
RECURSIVE AsList(_)
AsList(S) ==
    IF S = {} THEN <<>>
    ELSE LET m == CHOOSE x \in S : \A y \in S : x <= y
         IN <<m>> \o AsList(S \ {m})

-----------------------------------------------------------------------------
(* Event.process(): what the Routine does, and how the outcome is classified *)

\* how process() ends before routine.run() is called
Plans == {"unknown_trigger", "init_raises", "validity_raises", "invalid", "run"}
\* how routine.run() ends
RunOutcomes == {"ok", "error", "RoutineRunException", "retry_at", "retry"}

\* the plans open to an Event: an unregistered trigger name raises
\* UnknownTriggerException, routine_class(*None) raises TypeError
PlansOf(inst) ==
    IF inst.trigger_name \notin register THEN {"unknown_trigger"}
    ELSE IF args(inst).none THEN {"init_raises"}
    ELSE Plans \ {"unknown_trigger"}

\* the except clause that catches what the try block raised
Caught(out) ==
    CASE out \in {"ok", "invalid"} -> "none"
      [] out = "RoutineRunException" -> "RoutineRunException"
      [] out \in {"retry_at", "retry"} -> "RoutineRetryException"
      [] OTHER -> "bare"

\* a faulty process(): the bare except clause records FAILED
ProcessStatusBareFailed(out) ==
    CASE out = "invalid" -> CANCELLED
      [] out = "ok" -> SUCCESSFUL
      [] OTHER -> FAILED

\* a faulty process(): an invalid Routine's Event is recorded as FAILED
ProcessStatusInvalidFailed(out) ==
    CASE out = "ok" -> SUCCESSFUL
      [] Caught(out) \in {"none", "RoutineRunException", "RoutineRetryException"} -> FAILED
      [] OTHER -> BROKEN

\* self.status as process() leaves it
ProcessStatus(out) ==
    CASE out = "invalid" -> CANCELLED
      [] out = "ok" -> SUCCESSFUL
      [] Caught(out) \in {"RoutineRunException", "RoutineRetryException"} -> FAILED
      [] OTHER -> BROKEN

\* the bare except clause re-raises
ProcessRaises(out) == Caught(out) = "bare"

\* self.delete() is the try block's last statement
ProcessDeletes(inst, out) ==
    /\ Caught(out) = "none"
    /\ conf[get_routine_class(inst.trigger_name)].behavior = DELETE_AFTER_PROCESSING

\* retry_schedule is called from the RoutineRetryException clause
ProcessRetries(out) == Caught(out) = "RoutineRetryException"

\* retry_schedule(new_datetime=now() + timedelta(hours=1)): the default is
\* evaluated once, when the module is imported
retry_default == ImportNow + HourMs

\* a faulty process(): e.new_datetime is dropped, retry_schedule() is always
\* called without a datetime
RetryTargetDropsCarried(out, carried) == retry_default

\* the datetime process() passes on: e.new_datetime if it is set
RetryTarget(out, carried) == IF out = "retry_at" THEN carried ELSE retry_default

\* the new_datetime of a retry_schedule() call: the default when omitted
RetryDatetime(when) == IF when = None THEN retry_default ELSE when[1]

\* a faulty retry_schedule(): a CREATED event is not refused
RetryRefusedSuccessfulOnly(inst) == inst.status = SUCCESSFUL

\* retry_schedule(): refused on a SUCCESSFUL or CREATED event
RetryRefused(inst) == inst.status \in {SUCCESSFUL, CREATED}

\* the Event retry_schedule creates: trigger_name, datetime_scheduled, status, args
retry_schedule(tbl, pk, inst, target) ==
    create(tbl, pk, inst.trigger_name, NoGroup, target, args(inst))

\* the table after process() on instance inst (primary key pk) ended with `out`
ProcessWrites(tbl, pk, inst, out, carried, newPk, t) ==
    LET done == [inst EXCEPT !.status = ProcessStatus(out)]
        body == IF ProcessDeletes(inst, out) THEN delete(tbl, pk)
                ELSE IF ProcessRetries(out)
                     THEN retry_schedule(tbl, newPk, done, RetryTarget(out, carried))
                     ELSE tbl
    IN  \* finally: if self.pk (delete() has cleared it)
        IF ProcessDeletes(inst, out) THEN body
        ELSE save(body, pk, [done EXCEPT !.datetime_processed = Some(t)])

-----------------------------------------------------------------------------
(* utils.py: the per-Event lock *)

NoEntry == [held |-> FALSE, owner |-> 0, expires |-> 0]

\* the cache entry is there: set and not yet expired
Present(entry, t) == entry.held /\ t < entry.expires

\* the cache at time t: expired entries are gone
Expire(cache, t) == [i \in DOMAIN cache |-> IF Present(cache[i], t) THEN cache[i] ELSE NoEntry]

\* the lifetime of the entry, in ms: expire=15 of cache.lock, or the timeout
\* handed to cache.add (seconds)
LockLifetime == IF has_cache_lock THEN expire * 1000 ELSE timeout * 1000

\* simple_lock gives up once it has waited more than `timeout` ms
WaitedTooLong(waited) == ~has_cache_lock /\ waited > timeout

\* a faulty lock: leaving the with block leaves the entry in the cache
ReleasedKeepsEntry(entry, w, t) == entry

\* leaving the with block: cache.lock releases the lock it still owns,
\* simple_lock deletes the key
Released(entry, w, t) ==
    IF has_cache_lock
    THEN IF Present(entry, t) /\ entry.owner = w THEN NoEntry ELSE entry
    ELSE NoEntry

-----------------------------------------------------------------------------
(* Initial state: the modules are imported, the table is empty *)

NoInst == [trigger_name |-> "", task_group |-> NoGroup, data_pickled |-> <<>>,
           data_hash |-> 0, datetime_scheduled |-> 0, datetime_processed |-> None,
           status |-> CREATED]

\* a process_event task: where it is, the event_id, how long simple_lock has
\* waited, the loaded Event, how process() ended, whether the task ended in
\* an exception, and the datetime a RoutineRetryException carried
IdleWorker == [pc |-> "idle", id |-> 0, waited |-> 0, inst |-> NoInst, out |-> "",
               raised |-> FALSE, new_datetime |-> None]

\* a schedule() or retry_schedule() call: where it is, its arguments (for
\* retry_schedule, the Event it is called on), the fetched waiting events,
\* and what it returned
IdleCall == [pc |-> "idle", cls |-> "", self |-> 0, data |-> NoArgs, silent |-> TRUE,
             when |-> None, waiting |-> <<>>, result |-> "", event |-> 0]

InitWith(deployments, lockKinds) ==
    /\ conf \in deployments
    /\ has_cache_lock \in lockKinds
    /\ now = ImportNow
    /\ events = <<>>
    /\ nextId = 1
    /\ queue = <<>>
    /\ workers = [w \in Workers |-> IdleWorker]
    /\ locks = [i \in Ids |-> NoEntry]
    /\ calls = [c \in Callers |-> IdleCall]
    /\ runs = [i \in Ids |-> 0]
    /\ registries = NoRegistries

-----------------------------------------------------------------------------
(* Routine.schedule(datetime_scheduled, args, silent) *)

\* the checks: DuplicateEvent is raised (and swallowed when silent), or the
\* waiting events are fetched
ScheduleCheck(c, cls, data, silent, when) ==
    /\ calls[c].pc = "idle"
    /\ \A d \in DOMAIN calls : d < c => calls[d].pc # "idle"
    /\ LET h == hash_data(marshal_data(data))
           call == [IdleCall EXCEPT !.cls = cls, !.data = data, !.silent = silent,
                                    !.when = when]
       IN calls' = [calls EXCEPT ![c] =
            IF IsDuplicate(events, cls, h)
            THEN [call EXCEPT !.pc = "done",
                              !.result = IF silent THEN "None" ELSE "DuplicateEvent"]
            ELSE IF WaitingEvents(events, cls, h) # {}
                 THEN [call EXCEPT !.pc = "cancel",
                        !.waiting = [k \in 1..Cardinality(WaitingEvents(events, cls, h)) |->
                            LET pk == AsList(WaitingEvents(events, cls, h))[k]
                            IN [pk |-> pk, inst |-> events[pk]]]]
                 ELSE [call EXCEPT !.pc = "create"]]
    /\ UNCHANGED <<registries, conf, has_cache_lock, now, events, nextId, queue, workers, locks, runs>>

\* LAST_ONLY: waiting_event.cancel() on the next fetched instance
ScheduleCancel(c) ==
    /\ calls[c].pc = "cancel"
    /\ LET w == Head(calls[c].waiting)
       IN events' = cancel(events, w.pk, w.inst, now)
    /\ calls' = [calls EXCEPT ![c].waiting = Tail(@),
                              ![c].pc = IF Tail(calls[c].waiting) = <<>>
                                        THEN "create" ELSE "cancel"]
    /\ UNCHANGED <<registries, conf, has_cache_lock, now, nextId, queue, workers, locks, runs>>

\* datetime_scheduled defaults to timezone.now(); Event.objects.create(...)
ScheduleCreate(c) ==
    /\ calls[c].pc = "create"
    /\ nextId \in DOMAIN runs
    /\ LET cls == calls[c].cls
           scheduled == IF calls[c].when = None THEN now ELSE calls[c].when[1]
       IN events' = create(events, nextId, conf[cls].trigger_name,
                           conf[cls].task_group, scheduled, calls[c].data)
    /\ nextId' = nextId + 1
    /\ calls' = [calls EXCEPT ![c].pc = "done", ![c].result = "Event",
                              ![c].event = nextId]
    /\ UNCHANGED <<registries, conf, has_cache_lock, now, queue, workers, locks, runs>>

\* the call returns (an Event or None) or raises DuplicateEvent
ScheduleReturn(c) ==
    /\ calls[c].pc = "done"
    /\ calls' = [calls EXCEPT ![c] = IdleCall]
    /\ UNCHANGED <<registries, conf, has_cache_lock, now, events, nextId, queue, workers, locks, runs>>

-----------------------------------------------------------------------------
(* tasks.py: process_all_events and process_event *)

\* a faulty filter: datetime_scheduled is not compared
DueAnyTime(tbl, t) == { i \in DOMAIN tbl : tbl[i].status = CREATED }

\* a faulty filter: an Event scheduled for this very instant is not selected
DuePastOnly(tbl, t) ==
    { i \in DOMAIN tbl : tbl[i].status = CREATED /\ tbl[i].datetime_scheduled < t }

\* filter(datetime_scheduled__lte=now, status=CREATED)
Due(tbl, t) ==
    { i \in DOMAIN tbl : tbl[i].status = CREATED /\ tbl[i].datetime_scheduled <= t }

\* .order_by('datetime_scheduled'): the lists the query may return
Ordered(tbl, S) ==
    { s \in [1..Cardinality(S) -> S] :
        /\ \A i, j \in DOMAIN s : i # j => s[i] # s[j]
        /\ \A i, j \in DOMAIN s :
              i <= j => tbl[s[i]].datetime_scheduled <= tbl[s[j]].datetime_scheduled }

\* process_all_events: one process_event.delay(event_id) per due Event
ProcessAllEvents ==
    /\ Due(events, now) # {}
    /\ Len(queue) + Cardinality(Due(events, now)) <= MaxQueue
    /\ \E s \in Ordered(events, Due(events, now)) : queue' = queue \o s
    /\ UNCHANGED <<registries, conf, has_cache_lock, now, events, nextId, workers, locks, calls, runs>>

\* a worker takes the next process_event message and reaches `with lock(event_id)`
\* (the free workers are interchangeable: the first one takes it)
TaskStart(w) ==
    /\ workers[w].pc = "idle"
    /\ \A v \in Workers : v < w => workers[v].pc # "idle"
    /\ queue # <<>>
    /\ workers' = [workers EXCEPT ![w] =
            [IdleWorker EXCEPT !.pc = "acquire", !.id = Head(queue)]]
    /\ queue' = Tail(queue)
    /\ UNCHANGED <<registries, conf, has_cache_lock, now, events, nextId, locks, calls, runs>>

\* the lock is acquired: the key was absent or had expired
LockAcquire(w) ==
    /\ workers[w].pc = "acquire"
    /\ ~Present(locks[workers[w].id], now)
    /\ locks' = [locks EXCEPT ![workers[w].id] =
            [held |-> TRUE, owner |-> w, expires |-> now + LockLifetime]]
    /\ workers' = [workers EXCEPT ![w].pc = "load", ![w].waited = 0]
    /\ UNCHANGED <<registries, conf, has_cache_lock, now, events, nextId, queue, calls, runs>>

\* simple_lock: RuntimeError('Lock could not be acquired'), the task ends
LockTimeout(w) ==
    /\ workers[w].pc = "acquire"
    /\ Present(locks[workers[w].id], now)
    /\ WaitedTooLong(workers[w].waited)
    /\ workers' = [workers EXCEPT ![w] = IdleWorker]
    /\ UNCHANGED <<registries, conf, has_cache_lock, now, events, nextId, queue, locks, calls, runs>>

\* Event.objects.get(pk=event_id) raises DoesNotExist
LoadMissing(w) ==
    /\ workers[w].pc = "load"
    /\ workers[w].id \notin DOMAIN events
    /\ workers' = [workers EXCEPT ![w].pc = "release", ![w].out = "DoesNotExist",
                                  ![w].raised = TRUE]
    /\ UNCHANGED <<registries, conf, has_cache_lock, now, events, nextId, queue, locks, calls, runs>>

\* a faulty process_event: an Event that is not CREATED gets a new
\* datetime_processed
LoadSkipTouches(w) ==
    /\ workers[w].pc = "load"
    /\ workers[w].id \in DOMAIN events
    /\ events[workers[w].id].status # CREATED
    /\ events' = [events EXCEPT ![workers[w].id].datetime_processed = Some(now)]
    /\ workers' = [workers EXCEPT ![w].pc = "release", ![w].out = "skipped"]
    /\ UNCHANGED <<registries, conf, has_cache_lock, now, nextId, queue, locks, calls, runs>>

\* the Event is loaded and is not CREATED: nothing is done
LoadSkip(w) ==
    /\ workers[w].pc = "load"
    /\ workers[w].id \in DOMAIN events
    /\ events[workers[w].id].status # CREATED
    /\ workers' = [workers EXCEPT ![w].pc = "release", ![w].out = "skipped"]
    /\ UNCHANGED <<registries, conf, has_cache_lock, now, events, nextId, queue, locks, calls, runs>>

\* the Event is loaded and is CREATED, and event.process() ends before
\* routine.run(): the lookup, the constructor or check_validity() raises, or
\* check_validity() returns False
ProcessNoRun(w, plan) ==
    /\ workers[w].pc = "load"
    /\ workers[w].id \in DOMAIN events
    /\ events[workers[w].id].status = CREATED
    /\ plan \in PlansOf(events[workers[w].id]) \ {"run"}
    /\ events' = ProcessWrites(events, workers[w].id, events[workers[w].id], plan,
                               now, nextId, now)
    /\ workers' = [workers EXCEPT ![w].pc = "release", ![w].out = plan,
                                  ![w].inst = events[workers[w].id],
                                  ![w].raised = ProcessRaises(plan)]
    /\ UNCHANGED <<registries, conf, has_cache_lock, now, nextId, queue, locks, calls, runs>>

\* the Event is loaded and is CREATED, event.process() is entered and
\* routine.run() is invoked
ProcessRun(w) ==
    /\ workers[w].pc = "load"
    /\ workers[w].id \in DOMAIN events
    /\ events[workers[w].id].status = CREATED
    /\ "run" \in PlansOf(events[workers[w].id])
    /\ workers' = [workers EXCEPT ![w].pc = "process", ![w].inst = events[workers[w].id]]
    /\ runs' = [runs EXCEPT ![workers[w].id] = IF @ < 2 THEN @ + 1 ELSE @]
    /\ UNCHANGED <<registries, conf, has_cache_lock, now, events, nextId, queue, locks, calls>>

\* routine.run() ends and event.process() with it: the outcome is classified,
\* the row is deleted or a retry Event created, and the finally clause saves
ProcessEnd(w, out, carried) ==
    /\ workers[w].pc = "process"
    /\ out \in RunOutcomes
    /\ ProcessRetries(out) => nextId \in DOMAIN runs
    /\ events' = ProcessWrites(events, workers[w].id, workers[w].inst, out,
                               carried, nextId, now)
    /\ nextId' = IF ProcessRetries(out) THEN nextId + 1 ELSE nextId
    /\ workers' = [workers EXCEPT ![w].pc = "release", ![w].out = out,
                                  ![w].raised = ProcessRaises(out),
                                  ![w].new_datetime = IF out = "retry_at"
                                                      THEN Some(carried) ELSE None]
    /\ UNCHANGED <<registries, conf, has_cache_lock, now, queue, locks, calls, runs>>

\* the with block is left and the task ends
LockRelease(w) ==
    /\ workers[w].pc = "release"
    /\ locks' = [locks EXCEPT ![workers[w].id] = Released(@, w, now)]
    /\ workers' = [workers EXCEPT ![w] = IdleWorker]
    /\ UNCHANGED <<registries, conf, has_cache_lock, now, events, nextId, queue, calls, runs>>

-----------------------------------------------------------------------------
(* Event.retry_schedule(new_datetime) called by the application *)

\* the call on the stored Event pk: ValidationError, or the new Event
RetrySchedule(c, pk, when) ==
    /\ calls[c].pc = "idle"
    /\ \A d \in DOMAIN calls : d < c => calls[d].pc # "idle"
    /\ pk \in DOMAIN events
    /\ LET call == [IdleCall EXCEPT !.pc = "retried", !.self = pk, !.when = when]
       IN IF RetryRefused(events[pk])
          THEN /\ calls' = [calls EXCEPT ![c] = [call EXCEPT !.result = "ValidationError"]]
               /\ UNCHANGED <<events, nextId>>
          ELSE /\ nextId \in DOMAIN runs
               /\ events' = retry_schedule(events, nextId, events[pk], RetryDatetime(when))
               /\ nextId' = nextId + 1
               /\ calls' = [calls EXCEPT ![c] =
                      [call EXCEPT !.result = "Event", !.event = nextId]]
    /\ UNCHANGED <<registries, conf, has_cache_lock, now, queue, workers, locks, runs>>

\* the call returns the new Event or raises ValidationError
RetryReturn(c) ==
    /\ calls[c].pc = "retried"
    /\ calls' = [calls EXCEPT ![c] = IdleCall]
    /\ UNCHANGED <<registries, conf, has_cache_lock, now, events, nextId, queue, workers, locks, runs>>

-----------------------------------------------------------------------------
(* The clock *)

\* time passes (the whole run lasts less than one soft time limit, so that no
\* task exceeds it): expired cache entries go, waiting simple_locks count
Tick ==
    /\ now + TickMs <= MaxTicks * TickMs
    /\ now + TickMs <= soft_time_limit * 1000
    /\ now' = now + TickMs
    /\ locks' = Expire(locks, now + TickMs)
    /\ workers' = [w \in Workers |->
            IF workers[w].pc = "acquire" /\ ~has_cache_lock
            THEN [workers[w] EXCEPT !.waited = @ + TickMs]
            ELSE workers[w]]
    /\ UNCHANGED <<registries, conf, has_cache_lock, events, nextId, queue, calls, runs>>

-----------------------------------------------------------------------------
(* The system under concurrent dispatch *)

\* the datetimes a caller or a Routine may pass: the next instant of the clock
Later == now + TickMs

Init == InitWith({Deployment(DEFAULT, NoGroup, TRUE), Deployment(LAST_ONLY, NoGroup, TRUE),
                  Deployment(DELETE_AFTER_PROCESSING, NoGroup, TRUE)}, BOOLEAN)

Next ==
    \/ \E c \in Callers, cls \in Classes :
          ScheduleCheck(c, cls, ArgList(<<"x">>), TRUE, None)
    \/ \E c \in Callers : ScheduleCancel(c)
    \/ \E c \in Callers : ScheduleCreate(c)
    \/ \E c \in Callers : ScheduleReturn(c)
    \/ ProcessAllEvents
    \/ \E w \in Workers : TaskStart(w)
    \/ \E w \in Workers : LockAcquire(w)
    \/ \E w \in Workers : LockTimeout(w)
    \/ \E w \in Workers : LoadMissing(w)
    \/ \E w \in Workers : LoadSkip(w)
    \/ \E w \in Workers, plan \in Plans : ProcessNoRun(w, plan)
    \/ \E w \in Workers : ProcessRun(w)
    \/ \E w \in Workers, out \in RunOutcomes : ProcessEnd(w, out, Later)
    \/ \E w \in Workers : LockRelease(w)
    \/ Tick

Spec == Init /\ [][Next]_vars

-----------------------------------------------------------------------------
(* The system used one call at a time: schedule(), retry_schedule(), a poll or
   a process_event task starts when no other call is in progress *)

Quiet ==
    /\ \A c \in Callers : calls[c].pc = "idle"
    /\ \A w \in Workers : workers[w].pc = "idle"

InitSeq == InitWith(Deployments, {FALSE})

ScheduleSeq ==
    /\ Quiet
    /\ \E c \in Callers, cls \in Classes, data \in ArgValues, silent \in BOOLEAN,
          when \in {None, Some(Later)} : ScheduleCheck(c, cls, data, silent, when)

ProcessAllEventsSeq == Quiet /\ ProcessAllEvents

TaskStartSeq == Quiet /\ \E w \in Workers : TaskStart(w)

RetryScheduleSeq ==
    /\ Quiet
    /\ \E c \in Callers, pk \in Ids, when \in {None, Some(Later)} :
          RetrySchedule(c, pk, when)

TickSeq == Quiet /\ Tick

NextSeq ==
    \/ ScheduleSeq
    \/ \E c \in Callers : ScheduleCancel(c)
    \/ \E c \in Callers : ScheduleCreate(c)
    \/ \E c \in Callers : ScheduleReturn(c)
    \/ ProcessAllEventsSeq
    \/ TaskStartSeq
    \/ \E w \in Workers : LockAcquire(w)
    \/ \E w \in Workers : LoadMissing(w)
    \/ \E w \in Workers : LoadSkip(w)
    \/ \E w \in Workers, plan \in Plans : ProcessNoRun(w, plan)
    \/ \E w \in Workers : ProcessRun(w)
    \/ \E w \in Workers, out \in RunOutcomes : ProcessEnd(w, out, Later)
    \/ \E w \in Workers : LockRelease(w)
    \/ RetryScheduleSeq
    \/ \E c \in Callers : RetryReturn(c)
    \/ TickSeq

SpecSeq == InitSeq /\ [][NextSeq]_vars

-----------------------------------------------------------------------------
(* Two Routine classes and a shared task_group, one call at a time *)

InitGroup == InitWith(GroupDeployments, {FALSE})

\* either class schedules, with one of two args lists
ScheduleGroup ==
    /\ Quiet
    /\ \E c \in Callers, cls \in Classes, data \in {ArgList(<<>>), ArgList(<<"x">>)} :
          ScheduleCheck(c, cls, data, TRUE, None)

NextGroup ==
    \/ ScheduleGroup
    \/ \E c \in Callers : ScheduleCancel(c)
    \/ \E c \in Callers : ScheduleCreate(c)
    \/ \E c \in Callers : ScheduleReturn(c)
    \/ ProcessAllEventsSeq
    \/ TaskStartSeq
    \/ \E w \in Workers : LockAcquire(w)
    \/ \E w \in Workers : LoadMissing(w)
    \/ \E w \in Workers : LoadSkip(w)
    \/ \E w \in Workers, plan \in Plans : ProcessNoRun(w, plan)
    \/ \E w \in Workers : ProcessRun(w)
    \/ \E w \in Workers, out \in RunOutcomes : ProcessEnd(w, out, Later)
    \/ \E w \in Workers : LockRelease(w)
    \/ RetryScheduleSeq
    \/ \E c \in Callers : RetryReturn(c)
    \/ TickSeq

SpecGroup == InitGroup /\ [][NextGroup]_vars

-----------------------------------------------------------------------------
(* Concurrent schedule() calls: several callers, no dispatch *)

InitRace ==
    /\ conf \in { Deployment(b, g, TRUE) :
                      b \in {SCHEDULE_ONCE, RUN_AND_SCHEDULE_ONCE, LAST_ONLY},
                      g \in {NoGroup, "g"} }
    /\ has_cache_lock = FALSE
    /\ now = ImportNow
    /\ events = <<>>
    /\ nextId = 1
    /\ queue = <<>>
    /\ workers = [w \in Workers |-> IdleWorker]
    /\ locks = [i \in Ids |-> NoEntry]
    /\ calls = [c \in RaceCallers |-> IdleCall]
    /\ runs = [i \in Ids |-> 0]
    /\ registries = NoRegistries

NextRace ==
    \/ \E c \in RaceCallers, cls \in Classes, data \in ArgValues, silent \in BOOLEAN :
          ScheduleCheck(c, cls, data, silent, None)
    \/ \E c \in RaceCallers : ScheduleCancel(c)
    \/ \E c \in RaceCallers : ScheduleCreate(c)
    \/ \E c \in RaceCallers : ScheduleReturn(c)

SpecRace == InitRace /\ [][NextRace]_vars

-----------------------------------------------------------------------------
(* A RUN_AND_SCHEDULE_ONCE Routine, one call at a time, with room for a chain
   of three Events: an Event, its retry, and one more schedule() *)

InitChain ==
    /\ conf \in { Deployment(RUN_AND_SCHEDULE_ONCE, g, TRUE) : g \in {NoGroup, "g"} }
    /\ has_cache_lock = FALSE
    /\ now = ImportNow
    /\ events = <<>>
    /\ nextId = 1
    /\ queue = <<>>
    /\ workers = [w \in Workers |-> IdleWorker]
    /\ locks = [i \in 1..MaxChainEvents |-> NoEntry]
    /\ calls = [c \in Callers |-> IdleCall]
    /\ runs = [i \in 1..MaxChainEvents |-> 0]
    /\ registries = NoRegistries

ScheduleChain ==
    /\ Quiet
    /\ \E c \in Callers, cls \in Classes, data \in {ArgList(<<>>), ArgList(<<"x">>)} :
          ScheduleCheck(c, cls, data, TRUE, None)

NextChain ==
    \/ ScheduleChain
    \/ \E c \in Callers : ScheduleCreate(c)
    \/ \E c \in Callers : ScheduleReturn(c)
    \/ ProcessAllEventsSeq
    \/ TaskStartSeq
    \/ \E w \in Workers : LockAcquire(w)
    \/ \E w \in Workers : LoadSkip(w)
    \/ \E w \in Workers, plan \in Plans : ProcessNoRun(w, plan)
    \/ \E w \in Workers : ProcessRun(w)
    \/ \E w \in Workers, out \in RunOutcomes : ProcessEnd(w, out, Later)
    \/ \E w \in Workers : LockRelease(w)
    \/ TickSeq

SpecChain == InitChain /\ [][NextChain]_vars

-----------------------------------------------------------------------------
(* simple_lock with tasks that are not stopped by the soft time limit: the
   limit is enforced by the worker pool, not by process_event, and run() may
   outlast the lifetime of the cache entry *)

\* time passes by one lifetime of the lock's cache entry
TickLifetime ==
    /\ now + LockLifetime <= MaxLifetimes * LockLifetime
    /\ now' = now + LockLifetime
    /\ locks' = Expire(locks, now + LockLifetime)
    /\ workers' = [w \in Workers |->
            IF workers[w].pc = "acquire" /\ ~has_cache_lock
            THEN [workers[w] EXCEPT !.waited = @ + LockLifetime]
            ELSE workers[w]]
    /\ UNCHANGED <<registries, conf, has_cache_lock, events, nextId, queue, calls, runs>>

InitLock == InitWith({Deployment(DEFAULT, NoGroup, TRUE)}, {FALSE})

NextLock ==
    \/ \E c \in Callers, cls \in Classes :
          ScheduleCheck(c, cls, ArgList(<<"x">>), TRUE, None)
    \/ \E c \in Callers : ScheduleCreate(c)
    \/ \E c \in Callers : ScheduleReturn(c)
    \/ ProcessAllEvents
    \/ \E w \in Workers : TaskStart(w)
    \/ \E w \in Workers : LockAcquire(w)
    \/ \E w \in Workers : LockTimeout(w)
    \/ \E w \in Workers : LoadSkip(w)
    \/ \E w \in Workers : ProcessRun(w)
    \/ \E w \in Workers : ProcessEnd(w, "ok", Later)
    \/ \E w \in Workers : LockRelease(w)
    \/ TickLifetime

SpecLock == InitLock /\ [][NextLock]_vars

-----------------------------------------------------------------------------
(* Dispatch that keeps going: process_all_events is run again and again, the
   queued process_event tasks are taken by the workers, and every step of a
   task, routine.run() included, ends *)

InitLive == InitWith({Deployment(DELETE_AFTER_PROCESSING, NoGroup, TRUE)}, {FALSE})

ScheduleLive ==
    /\ Quiet
    /\ \E c \in Callers, cls \in Classes :
          ScheduleCheck(c, cls, ArgList(<<"x">>), TRUE, None)

\* the steps of the process_event task of worker w
TaskStep(w) ==
    \/ LockAcquire(w)
    \/ LockTimeout(w)
    \/ LoadMissing(w)
    \/ LoadSkip(w)
    \/ \E plan \in {"validity_raises", "invalid"} : ProcessNoRun(w, plan)
    \/ ProcessRun(w)
    \/ \E out \in {"ok", "retry"} : ProcessEnd(w, out, Later)
    \/ LockRelease(w)

NextLive ==
    \/ ScheduleLive
    \/ \E c \in Callers : ScheduleCreate(c)
    \/ \E c \in Callers : ScheduleReturn(c)
    \/ ProcessAllEvents
    \/ \E w \in Workers : TaskStart(w)
    \/ \E w \in Workers : TaskStep(w)
    \/ Tick

\* the periodic poll runs, a free worker takes the next message, a task takes
\* its next step
Fairness ==
    /\ WF_vars(ProcessAllEvents)
    /\ \A w \in Workers : WF_vars(TaskStart(w))
    /\ \A w \in Workers : WF_vars(TaskStep(w))

SpecLive == InitLive /\ [][NextLive]_vars /\ Fairness

-----------------------------------------------------------------------------
(* The registries alone: registrations and lookups in any order *)

InitRegistry == InitWith({Deployment(DEFAULT, NoGroup, TRUE)}, {FALSE})

NextRegistry ==
    \/ \E t \in RoutineTypes : RunnerRegister(t)
    \/ \E key \in TriggerNames : RunnerGetRoutineClass(key)
    \/ \E t \in RoutineTypes : Scheduled(t)
    \/ \E key \in TriggerNames : EventGetRoutineClass(key)

SpecRegistry == InitRegistry /\ [][NextRegistry]_vars

-----------------------------------------------------------------------------
(* Claims about concurrent dispatch (specification Spec) *)

\* the process_event tasks that are inside Event.process() for Event i
InProcess(i) == { w \in Workers : workers[w].pc = "process" /\ workers[w].id = i }

\* C1: for every Event id, at no time are two process_event tasks inside
\* Event.process() for that id, whichever lock implementation is in use and
\* however long (within the soft time limit) a task stays in process().
C1_MutualExclusion == \A i \in Ids : Cardinality(InProcess(i)) <= 1

\* C2: over any number of polls and any interleaving of the process_event
\* tasks, routine.run() is invoked at most once for an Event row.
C2_RunAtMostOnce == \A i \in Ids : runs[i] <= 1

\* C3: terminal statuses are absorbing: once a row's stored status is not
\* CREATED, no step of schedule(), process_event() or retry_schedule()
\* changes that row's stored status.
C3_TerminalAbsorbing ==
    [][\A i \in DOMAIN events :
          (events[i].status # CREATED /\ i \in DOMAIN events')
              => events'[i].status = events[i].status]_vars

\* C4: every persisted Event has datetime_processed non-null if and only if
\* its status is not CREATED.
C4_ProcessedIffNotCreated ==
    \A i \in DOMAIN events :
        (events[i].datetime_processed # None) <=> (events[i].status # CREATED)

\* C4 witness: a row cancelled by LAST_ONLY, a row left by process() and a
\* fresh row are stored
C4_Witness ==
    /\ \E i \in DOMAIN events :
          events[i].status = CANCELLED /\ events[i].datetime_processed # None
    /\ \E i \in DOMAIN events :
          events[i].status = CREATED /\ events[i].datetime_processed = None
    /\ \E w \in Workers : workers[w].pc = "release" /\ workers[w].out = "ok"

\* C18: a process_event task that reloads an Event whose stored status is not
\* CREATED performs no work: event.process() is not entered (no Routine
\* lookup or construction, no check_validity(), no run()), no Event is
\* created and no stored Event changes, up to the end of the task.
C18_NotCreatedNoWork ==
    [][\A w \in Workers :
          /\ (/\ workers[w].pc = "load"
              /\ workers[w].id \in DOMAIN events
              /\ events[workers[w].id].status # CREATED
              /\ workers'[w] # workers[w]) =>
                /\ workers'[w] = [workers[w] EXCEPT !.pc = "release", !.out = "skipped"]
                /\ events' = events /\ nextId' = nextId /\ runs' = runs
          /\ (workers[w].out = "skipped" /\ workers'[w] # workers[w]) =>
                /\ workers'[w] = IdleWorker
                /\ events' = events /\ nextId' = nextId /\ runs' = runs]_vars

\* C18 witness: a task has skipped an Event that another task had processed
\* while this one waited for the lock
C18_Witness ==
    \E w \in Workers :
        /\ workers[w].pc = "release" /\ workers[w].out = "skipped"
        /\ workers[w].id \in DOMAIN events
        /\ events[workers[w].id].status \in {SUCCESSFUL, FAILED, BROKEN}
        /\ runs[workers[w].id] = 1

\* C27: once a LAST_ONLY schedule() has cancelled an Event (stored status
\* CANCELLED), its Routine's run() does not start afterwards and no
\* process_event task that loaded it earlier overwrites the stored status.
C27_CancelledStaysCancelled ==
    [][\A i \in DOMAIN events :
          (/\ events[i].status = CANCELLED
           /\ \E cls \in Classes :
                 /\ conf[cls].behavior = LAST_ONLY
                 /\ conf[cls].trigger_name = events[i].trigger_name) =>
              /\ runs'[i] = runs[i]
              /\ i \in DOMAIN events' => events'[i].status = CANCELLED]_vars

\* the step in which worker w leaves the with block
LeavesLock(w) == workers[w].pc = "release" /\ workers'[w].pc = "idle"

\* C28: a worker leaving simple_lock's critical section deletes the key only
\* if it is the current holder: its release never removes a lock that another
\* worker holds, even after the entry expired under the first holder and a
\* second worker acquired the lock.
C28_ReleaseOnlyOwnLock ==
    [][\A w \in Workers :
          (/\ ~has_cache_lock
           /\ LeavesLock(w)
           /\ Present(locks[workers[w].id], now)
           /\ locks[workers[w].id].owner # w) =>
              locks'[workers[w].id] = locks[workers[w].id]]_vars

\* C29: the per-Event lock is never leaked: when a process_event(id) task
\* that acquired the lock exits (by returning, by process() re-raising after
\* recording BROKEN, or by the reload raising DoesNotExist), the exiting task
\* no longer holds the lock for id, and the key is free for a later
\* process_event(id) unless another task took it in the meantime.
C29_LockNotLeaked ==
    [][\A w \in Workers :
          LeavesLock(w) =>
              LET entry == locks'[workers[w].id]
              IN \/ ~Present(entry, now')
                 \/ /\ entry.owner # w
                    /\ workers'[entry.owner].id = workers[w].id
                    /\ workers'[entry.owner].pc \in {"load", "process", "release"}]_vars

\* C29 witness: under simple_lock a second process_event task for a deleted
\* DELETE_AFTER_PROCESSING Event holds the lock that the first task released,
\* and is leaving with DoesNotExist raised
C29_Witness ==
    \E w \in Workers :
        /\ ~has_cache_lock
        /\ workers[w].pc = "release"
        /\ workers[w].out = "DoesNotExist" /\ workers[w].raised
        /\ workers[w].id < nextId
        /\ Present(locks[workers[w].id], now) /\ locks[workers[w].id].owner = w

-----------------------------------------------------------------------------
(* Claims about dispatch that keeps going (specification SpecLive) *)

\* Event i is stored CREATED and its datetime_scheduled has come
DueCreated(i) ==
    /\ i \in DOMAIN events
    /\ events[i].status = CREATED
    /\ events[i].datetime_scheduled <= now

\* Event i has left CREATED or has been deleted
LeftCreated(i) == i \notin DOMAIN events \/ events[i].status # CREATED

\* C30: if process_all_events is run repeatedly, the queued process_event
\* tasks are executed and every Routine call terminates, every Event that is
\* CREATED with datetime_scheduled <= now eventually leaves CREATED or is
\* deleted, also when a process_event task gives up waiting for the lock.
C30_DueEventLeavesCreated == \A i \in Ids : DueCreated(i) ~> LeftCreated(i)

\* C30 witness: an Event has been processed by the task that holds its lock
\* while a second task for it has waited for the lock longer than the timeout
C30_Witness ==
    \E i \in DOMAIN events, w, v \in Workers :
        /\ events[i].status \in {SUCCESSFUL, FAILED, CANCELLED, BROKEN}
        /\ events[i].datetime_scheduled <= now
        /\ workers[w].pc = "release" /\ workers[w].id = i
        /\ workers[v].pc = "acquire" /\ workers[v].id = i
        /\ WaitedTooLong(workers[v].waited)

-----------------------------------------------------------------------------
(* Claims about one call at a time (specification SpecSeq) *)

\* the step in which worker w's call of event.process() ends with outcome out
EndsProcess(w, out) ==
    /\ workers[w].pc \in {"load", "process"}
    /\ workers'[w].pc = "release"
    /\ workers'[w].out = out

\* the rows a step creates
Created == (DOMAIN events') \ (DOMAIN events)

\* the Event just processed is stored with this status and a processing time
StoredAs(w, status) ==
    /\ workers[w].id \in DOMAIN events'
    /\ events'[workers[w].id].status = status
    /\ events'[workers[w].id].datetime_processed # None

\* C5: process() on a CREATED Event whose Routine is valid and whose run()
\* raises a generic error leaves the Event stored FAILED with
\* datetime_processed set, creates no retry Event and does not re-raise.
C5_GenericRunErrorFails ==
    [][\A w \in Workers :
          EndsProcess(w, "error") =>
              /\ StoredAs(w, FAILED)
              /\ Created = {}
              /\ ~workers'[w].raised]_vars

\* C6: process() on a CREATED Event whose run() raises RoutineRetryException
\* carrying a datetime T creates exactly one new Event, CREATED, with the
\* same trigger_name and args and datetime_scheduled = T; the original ends
\* FAILED with datetime_processed set; nothing is re-raised.
C6_RetryCreatesOneEvent ==
    [][\A w \in Workers :
          EndsProcess(w, "retry_at") =>
              /\ Cardinality(Created) = 1
              /\ \A n \in Created :
                    /\ events'[n].status = CREATED
                    /\ events'[n].trigger_name = events[workers[w].id].trigger_name
                    /\ args(events'[n]) = args(events[workers[w].id])
                    /\ Some(events'[n].datetime_scheduled) = workers'[w].new_datetime
              /\ StoredAs(w, FAILED)
              /\ ~workers'[w].raised]_vars

\* C6 witness: a task has just left process() on the retry path, the original
\* is stored FAILED and a CREATED Event is scheduled at the carried datetime
C6_Witness ==
    \E w \in Workers :
        /\ workers[w].pc = "release" /\ workers[w].out = "retry_at"
        /\ events[workers[w].id].status = FAILED
        /\ \E n \in DOMAIN events :
              /\ n # workers[w].id
              /\ events[n].status = CREATED
              /\ Some(events[n].datetime_scheduled) = workers[w].new_datetime

\* the processed Event's Routine class has behavior DELETE_AFTER_PROCESSING
DeletesAfterProcessing(w) ==
    \E c \in Classes :
        /\ conf[c].registered
        /\ conf[c].trigger_name = events[workers[w].id].trigger_name
        /\ conf[c].behavior = DELETE_AFTER_PROCESSING

\* C7: for a DELETE_AFTER_PROCESSING Routine, after process() returns or
\* raises the processed row no longer exists, for every outcome, and every
\* other row is unchanged.
C7_DeletedWhateverOutcome ==
    [][\A w \in Workers, out \in Plans \cup RunOutcomes :
          (EndsProcess(w, out) /\ DeletesAfterProcessing(w)) =>
              /\ workers[w].id \notin DOMAIN events'
              /\ \A j \in (DOMAIN events) \ {workers[w].id} :
                    j \in DOMAIN events' /\ events'[j] = events[j]]_vars

\* C8: when process() hits an error other than a run() failure or a retry
\* signal (unknown trigger name, constructor or check_validity() raising),
\* the Event is stored BROKEN with datetime_processed set, no Event is
\* created, and the error is re-raised to the caller.
C8_OtherErrorsBroken ==
    [][\A w \in Workers, out \in {"unknown_trigger", "init_raises", "validity_raises"} :
          EndsProcess(w, out) =>
              /\ StoredAs(w, BROKEN)
              /\ Created = {}
              /\ workers'[w].raised]_vars

\* C8 witness: a task is leaving process_event with the UnknownTriggerException
\* re-raised and the Event stored BROKEN
C8_Witness ==
    \E w \in Workers :
        /\ workers[w].pc = "release" /\ workers[w].out = "unknown_trigger"
        /\ workers[w].raised
        /\ events[workers[w].id].status = BROKEN
        /\ events[workers[w].id].datetime_processed # None

\* the step in which caller c's schedule() call runs its duplicate checks
ChecksSchedule(c) == calls[c].pc = "idle" /\ calls'[c].pc \in {"done", "cancel", "create"}

Rejected(call) == call.pc = "done" /\ call.result \in {"None", "DuplicateEvent"}

\* the stored Events in the group key of class cls: those with its task_group
\* if it has one, else those with its trigger_name
InGroupKey(cls, i) ==
    IF conf[cls].task_group = NoGroup
    THEN events[i].trigger_name = conf[cls].trigger_name
    ELSE events[i].task_group = conf[cls].task_group

\* C9: schedule() of a SCHEDULE_ONCE Routine is rejected exactly when some
\* stored Event of the same group key and data_hash has datetime_processed
\* null; otherwise it succeeds and returns a new Event whose id differs
\* from all earlier ones.
C9_ScheduleOnce ==
    [][\A c \in Callers :
          /\ (ChecksSchedule(c) /\ conf[calls'[c].cls].behavior = SCHEDULE_ONCE) =>
                /\ Rejected(calls'[c]) <=>
                      \E i \in DOMAIN events :
                          /\ InGroupKey(calls'[c].cls, i)
                          /\ events[i].data_hash = hash_data(marshal_data(calls'[c].data))
                          /\ events[i].datetime_processed = None
                /\ ~Rejected(calls'[c]) => calls'[c].pc = "create"
          /\ (calls[c].pc = "create" /\ calls'[c].pc = "done"
                /\ conf[calls[c].cls].behavior = SCHEDULE_ONCE) =>
                /\ calls'[c].result = "Event"
                /\ Created = {calls'[c].event}
                /\ \A i \in DOMAIN events : i < nextId
                /\ calls'[c].event >= nextId
                /\ events'[calls'[c].event].status = CREATED]_vars


\* C9 witness: a SCHEDULE_ONCE schedule() has returned a second Event after
\* the first one, with the same group key and data_hash, was processed
C9_Witness ==
    \E c \in Callers :
        /\ calls[c].pc = "done" /\ calls[c].result = "Event"
        /\ conf[calls[c].cls].behavior = SCHEDULE_ONCE
        /\ \E i \in DOMAIN events :
              /\ i # calls[c].event
              /\ InGroupKey(calls[c].cls, i)
              /\ events[i].data_hash = events[calls[c].event].data_hash
              /\ events[i].datetime_processed # None

\* C10: once an Event of a RUN_ONCE Routine with args a is SUCCESSFUL, every
\* later schedule() of that Routine with args a is rejected: it raises
\* DuplicateEvent when silent is false and returns None when silent is true,
\* and it creates no Event and changes no stored Event.
C10_RunOnceRejects ==
    [][\A c \in Callers :
          (/\ ChecksSchedule(c)
           /\ conf[calls'[c].cls].behavior = RUN_ONCE
           /\ \E i \in DOMAIN events :
                 /\ events[i].trigger_name = conf[calls'[c].cls].trigger_name
                 /\ args(events[i]) = calls'[c].data
                 /\ events[i].status = SUCCESSFUL) =>
              /\ calls'[c].pc = "done"
              /\ calls'[c].result = IF calls'[c].silent THEN "None" ELSE "DuplicateEvent"
              /\ events' = events]_vars

\* the stored Events a schedule() call of caller c is compared with: those of
\* its class's group key that carry the data_hash of its args
SameKeyAndHash(c) ==
    { i \in DOMAIN events :
        /\ InGroupKey(calls'[c].cls, i)
        /\ events[i].data_hash = hash_data(marshal_data(calls'[c].data)) }

\* C11: schedule() of a RUN_AND_SCHEDULE_ONCE Routine is rejected exactly when
\* some stored Event of the same group key and data_hash is SUCCESSFUL or
\* CREATED; it is accepted when every such Event is CANCELLED, FAILED or
\* BROKEN, or none exists.
C11_RunAndScheduleOnce ==
    [][\A c \in Callers :
          (ChecksSchedule(c) /\ conf[calls'[c].cls].behavior = RUN_AND_SCHEDULE_ONCE) =>
              /\ Rejected(calls'[c]) <=>
                    \E i \in SameKeyAndHash(c) : events[i].status \in {SUCCESSFUL, CREATED}
              /\ (\A i \in SameKeyAndHash(c) :
                      events[i].status \in {CANCELLED, FAILED, BROKEN})
                    => calls'[c].pc = "create"
              /\ events' = events]_vars

\* C11 witness: a RUN_AND_SCHEDULE_ONCE schedule() was rejected although the
\* only Event of its group key and data_hash has been processed: it succeeded
C11_Witness ==
    \E c \in Callers :
        /\ Rejected(calls[c])
        /\ conf[calls[c].cls].behavior = RUN_AND_SCHEDULE_ONCE
        /\ \E i \in DOMAIN events :
              /\ InGroupKey(calls[c].cls, i)
              /\ events[i].data_hash = hash_data(marshal_data(calls[c].data))
              /\ events[i].status = SUCCESSFUL
        /\ \A i \in DOMAIN events : events[i].status # CREATED

\* the behaviors under which schedule() runs no query at all
Unchecked(cls) ==
    conf[cls].behavior \in {DEFAULT, Unset, Unrecognised, DELETE_AFTER_PROCESSING}

\* C12: for a Routine whose behavior is DEFAULT, unset, unrecognised or
\* DELETE_AFTER_PROCESSING, schedule() never rejects: whatever is stored, each
\* call creates one Event with a new id and status CREATED and changes no
\* existing Event.
C12_DefaultNeverRejects ==
    [][\A c \in Callers :
          /\ (ChecksSchedule(c) /\ Unchecked(calls'[c].cls)) =>
                calls'[c].pc = "create" /\ events' = events
          /\ (calls[c].pc = "create" /\ calls'[c] # calls[c] /\ Unchecked(calls[c].cls)) =>
                /\ calls'[c].pc = "done" /\ calls'[c].result = "Event"
                /\ Created = {calls'[c].event}
                /\ \A i \in DOMAIN events : i < nextId
                /\ calls'[c].event >= nextId
                /\ events'[calls'[c].event].status = CREATED
                /\ \A i \in DOMAIN events : i \in DOMAIN events' /\ events'[i] = events[i]]_vars

\* C12 witness: a second call with identical args has returned a second Event
\* while the first one is still CREATED
C12_Witness ==
    \E c \in Callers :
        /\ calls[c].pc = "done" /\ calls[c].result = "Event"
        /\ Unchecked(calls[c].cls)
        /\ \E i \in DOMAIN events :
              /\ i # calls[c].event
              /\ events[i].trigger_name = events[calls[c].event].trigger_name
              /\ events[i].data_hash = events[calls[c].event].data_hash
              /\ events[i].status = CREATED
              /\ events[calls[c].event].status = CREATED

\* C13: schedule() of a LAST_ONLY Routine never rejects; it cancels (status
\* CANCELLED, datetime_processed set) exactly the Events of its group key and
\* data_hash that were unprocessed, then creates the new Event, which is the
\* only unprocessed Event of that group key and data_hash when the call
\* returns; every other stored Event is unchanged.
C13_LastOnly ==
    [][\A c \in Callers :
          /\ (ChecksSchedule(c) /\ conf[calls'[c].cls].behavior = LAST_ONLY) =>
                /\ ~Rejected(calls'[c])
                /\ events' = events
                /\ { calls'[c].waiting[k].pk : k \in DOMAIN calls'[c].waiting }
                      = { i \in SameKeyAndHash(c) : events[i].datetime_processed = None }
          /\ (calls[c].pc = "cancel" /\ calls'[c] # calls[c]) =>
                LET pk == Head(calls[c].waiting).pk
                IN /\ DOMAIN events' = DOMAIN events
                   /\ events'[pk] = [events[pk] EXCEPT !.status = CANCELLED,
                                                       !.datetime_processed = Some(now)]
                   /\ \A i \in (DOMAIN events) \ {pk} : events'[i] = events[i]
          /\ (/\ calls[c].pc = "create" /\ calls'[c] # calls[c]
              /\ conf[calls[c].cls].behavior = LAST_ONLY) =>
                /\ calls'[c].pc = "done" /\ calls'[c].result = "Event"
                /\ Created = {calls'[c].event}
                /\ \A i \in DOMAIN events : i \in DOMAIN events' /\ events'[i] = events[i]
                /\ { i \in DOMAIN events' :
                        (/\ InGroupKey(calls[c].cls, i)
                         /\ events[i].data_hash = hash_data(marshal_data(calls[c].data))
                         /\ events[i].datetime_processed = None)' }
                      = {calls'[c].event}]_vars

\* C13 witness: a LAST_ONLY schedule() has returned its new Event and the
\* Event that was waiting with the same group key and data_hash is CANCELLED
C13_Witness ==
    \E c \in Callers :
        /\ calls[c].pc = "done" /\ calls[c].result = "Event"
        /\ conf[calls[c].cls].behavior = LAST_ONLY
        /\ events[calls[c].event].datetime_processed = None
        /\ \E i \in DOMAIN events :
              /\ i # calls[c].event
              /\ InGroupKey(calls[c].cls, i)
              /\ events[i].data_hash = events[calls[c].event].data_hash
              /\ events[i].status = CANCELLED
              /\ events[i].datetime_processed = Some(now)

\* the step in which caller c's retry_schedule() call is made
RetryCalled(c) == calls[c].pc = "idle" /\ calls'[c].pc = "retried"

\* C15: retry_schedule(T) on a CREATED or SUCCESSFUL Event fails with a
\* validation error and creates no row; on a FAILED, CANCELLED or BROKEN
\* Event it creates exactly one new Event with the same trigger_name and
\* args, status CREATED and datetime_scheduled = T, and leaves the original
\* Event's stored fields unchanged.
C15_RetrySchedule ==
    [][\A c \in Callers :
          RetryCalled(c) =>
              LET pk == calls'[c].self
              IN /\ events[pk].status \in {CREATED, SUCCESSFUL} =>
                      calls'[c].result = "ValidationError" /\ events' = events
                 /\ events[pk].status \in {FAILED, CANCELLED, BROKEN} =>
                      /\ calls'[c].result = "Event"
                      /\ Created = {calls'[c].event}
                      /\ \A n \in Created :
                            /\ events'[n].trigger_name = events[pk].trigger_name
                            /\ args(events'[n]) = args(events[pk])
                            /\ events'[n].status = CREATED
                            /\ calls'[c].when # None =>
                                  Some(events'[n].datetime_scheduled) = calls'[c].when
                      /\ \A i \in DOMAIN events :
                            i \in DOMAIN events' /\ events'[i] = events[i]]_vars

\* C15 witness: retry_schedule(T) on a CANCELLED Event has returned a new
\* CREATED Event scheduled at T
C15_Witness ==
    \E c \in Callers :
        /\ calls[c].pc = "retried" /\ calls[c].result = "Event"
        /\ calls[c].when # None
        /\ events[calls[c].self].status = CANCELLED
        /\ events[calls[c].event].status = CREATED
        /\ Some(events[calls[c].event].datetime_scheduled) = calls[c].when

\* C16: when retry_schedule() is called without a target, directly or by
\* process() after a RoutineRetryException carrying no datetime, the new
\* Event's datetime_scheduled is the clock value at that moment plus one hour.
C16_DefaultRetryTarget ==
    [][/\ \A c \in Callers :
            (RetryCalled(c) /\ calls'[c].when = None) =>
                \A n \in Created : events'[n].datetime_scheduled = now + HourMs
       /\ \A w \in Workers :
            EndsProcess(w, "retry") =>
                \A n \in Created : events'[n].datetime_scheduled = now + HourMs]_vars

\* C17 as stated: when process() is called on a CREATED Event whose Routine's
\* check_validity() returns false, the Event ends stored CANCELLED with
\* datetime_processed set, run() is never invoked for it, no retry Event is
\* created and no error is raised.
C17_InvalidCancelled ==
    [][\A w \in Workers :
          EndsProcess(w, "invalid") =>
              /\ StoredAs(w, CANCELLED)
              /\ runs'[workers[w].id] = 0
              /\ Created = {}
              /\ ~workers'[w].raised]_vars

\* C17 amended: when check_validity() returns false, the Event ends stored
\* CANCELLED with datetime_processed set unless its Routine's behavior is
\* DELETE_AFTER_PROCESSING, in which case the row is deleted; in both cases
\* run() is never invoked for it, no Event is created, no other row changes
\* and no error is raised.
C17_InvalidCancelledOrDeleted ==
    [][\A w \in Workers :
          EndsProcess(w, "invalid") =>
              /\ IF DeletesAfterProcessing(w)
                 THEN workers[w].id \notin DOMAIN events'
                 ELSE StoredAs(w, CANCELLED)
              /\ runs'[workers[w].id] = 0
              /\ Created = {}
              /\ \A j \in (DOMAIN events) \ {workers[w].id} :
                    j \in DOMAIN events' /\ events'[j] = events[j]
              /\ ~workers'[w].raised]_vars

\* C17 witness: a task is leaving process() after check_validity() returned
\* false; the Event is stored CANCELLED and run() was not invoked
C17_Witness ==
    \E w \in Workers :
        /\ workers[w].pc = "release" /\ workers[w].out = "invalid"
        /\ ~workers[w].raised
        /\ workers[w].id \in DOMAIN events
        /\ events[workers[w].id].status = CANCELLED
        /\ events[workers[w].id].datetime_processed = Some(now)
        /\ runs[workers[w].id] = 0

\* the messages a step appends to the queue
Enqueued == SubSeq(queue', Len(queue) + 1, Len(queue'))

\* the step in which worker w's task enters event.process()
EntersProcess(w) ==
    /\ workers[w].pc = "load"
    /\ \/ workers'[w].pc = "process"
       \/ workers'[w].pc = "release" /\ workers'[w].out \in Plans

\* C19: each process_all_events poll at time t enqueues exactly the ids of
\* the Events with status CREATED and datetime_scheduled <= t, each once, in
\* non-decreasing datetime_scheduled order; and no Event is processed through
\* the dispatch path before its datetime_scheduled.
C19_DispatchEligibility ==
    [][/\ Len(queue') > Len(queue) =>
            /\ SubSeq(queue', 1, Len(queue)) = queue
            /\ { Enqueued[k] : k \in DOMAIN Enqueued }
                  = { i \in DOMAIN events :
                        events[i].status = CREATED /\ events[i].datetime_scheduled <= now }
            /\ \A j, k \in DOMAIN Enqueued :
                  /\ j # k => Enqueued[j] # Enqueued[k]
                  /\ j <= k => events[Enqueued[j]].datetime_scheduled
                                  <= events[Enqueued[k]].datetime_scheduled
       /\ \A w \in Workers :
            EntersProcess(w) => events[workers[w].id].datetime_scheduled <= now]_vars

\* C19 witness: one poll has enqueued two due Events, the one scheduled
\* earlier first although it was created later, and a task has taken the first
C19_Witness ==
    /\ Len(queue) = 1
    /\ \E w \in Workers :
          /\ workers[w].pc = "acquire"
          /\ workers[w].id > queue[1]
          /\ workers[w].id \in DOMAIN events /\ queue[1] \in DOMAIN events
          /\ events[workers[w].id].datetime_scheduled < events[queue[1]].datetime_scheduled
          /\ events[queue[1]].datetime_scheduled <= now

\* C20: schedule() called with args omitted stores an Event whose args is the
\* empty sequence, so that process() of that Event constructs the Routine
\* with no arguments and can reach run(), to end SUCCESSFUL (not BROKEN) when
\* the Routine is valid and run() succeeds.
C20_OmittedArgsEmpty ==
    [][/\ \A c \in Callers :
            (calls[c].pc = "create" /\ calls'[c].pc = "done" /\ calls[c].data = NoArgs) =>
                args(events'[calls'[c].event]) = ArgList(<<>>)
       /\ \A w \in Workers, out \in Plans \cup RunOutcomes :
            (/\ EndsProcess(w, out)
             /\ events[workers[w].id].data_pickled = marshal_data(NoArgs)
             /\ events[workers[w].id].trigger_name \in register) =>
                /\ "run" \in PlansOf(events[workers[w].id])
                /\ out = "ok" => events'[workers[w].id].status = SUCCESSFUL]_vars

\* the fields of a row that are fixed when it is created
CreatedWith(row) ==
    <<row.trigger_name, row.task_group, args(row), row.datetime_scheduled>>

\* C21: no call changes the trigger_name, task_group, args or
\* datetime_scheduled of a persisted Event; a process() call modifies only the
\* status and datetime_processed of the processed row (or deletes it),
\* creates at most one new row, and that only on the retry path, and changes
\* no other row.
C21_ImmutableAndFrame ==
    [][/\ \A i \in (DOMAIN events) \cap (DOMAIN events') :
            CreatedWith(events'[i]) = CreatedWith(events[i])
       /\ \A w \in Workers, out \in Plans \cup RunOutcomes :
            EndsProcess(w, out) =>
                /\ \A j \in (DOMAIN events) \ {workers[w].id} :
                      j \in DOMAIN events' /\ events'[j] = events[j]
                /\ workers[w].id \in DOMAIN events' =>
                      events'[workers[w].id] =
                          [events[workers[w].id] EXCEPT
                              !.status = events'[workers[w].id].status,
                              !.datetime_processed = events'[workers[w].id].datetime_processed]
                /\ Cardinality(Created) <= 1
                /\ Created # {} => out \in {"retry", "retry_at"}]_vars

\* C21 witness: process() has ended on the retry path for an Event that was
\* scheduled for a later time with args; the Event still has that time and
\* those args, and the one new row is the retry Event
C21_Witness ==
    \E w \in Workers :
        /\ workers[w].pc = "release" /\ workers[w].out = "retry"
        /\ workers[w].id \in DOMAIN events
        /\ events[workers[w].id].status = FAILED
        /\ events[workers[w].id].datetime_scheduled > ImportNow
        /\ args(events[workers[w].id]) = ArgList(<<"x">>)
        /\ \E n \in DOMAIN events :
              n # workers[w].id /\ events[n].datetime_processed = None

\* C22: every persisted Event's data_hash is the hash of its own stored
\* serialized args, after every save; and the Event schedule() creates has
\* the hash schedule() used in its duplicate check, for every args value
\* including omitted args.
C22_HashOfStoredArgs ==
    [][/\ \A i \in DOMAIN events' :
            events'[i].data_hash = hash_data(events'[i].data_pickled)
       /\ \A c \in Callers :
            (calls[c].pc = "create" /\ calls'[c].pc = "done") =>
                /\ events'[calls'[c].event].data_pickled = marshal_data(calls[c].data)
                /\ events'[calls'[c].event].data_hash
                      = hash_data(marshal_data(calls[c].data))]_vars

\* C22 witness: schedule() with args omitted has returned its Event, whose
\* data_hash is the hash of the stored bytes, next to an Event with other
\* args that process() has saved
C22_Witness ==
    \E c \in Callers :
        /\ calls[c].pc = "done" /\ calls[c].result = "Event"
        /\ calls[c].data = NoArgs
        /\ events[calls[c].event].data_hash = hash_data(marshal_data(NoArgs))
        /\ \E i \in DOMAIN events :
              /\ events[i].datetime_processed # None
              /\ events[i].data_hash # events[calls[c].event].data_hash
              /\ events[i].data_hash = hash_data(events[i].data_pickled)

\* C26: a retry Event created by retry_schedule(), called by process() or
\* directly, has the task_group of the Event it retries, so that it stays in
\* the group key the Routine's schedule() checks.
C26_RetryKeepsTaskGroup ==
    [][/\ \A w \in Workers, out \in {"retry", "retry_at"} :
            EndsProcess(w, out) =>
                \A n \in Created :
                    events'[n].task_group = events[workers[w].id].task_group
       /\ \A c \in Callers :
            RetryCalled(c) =>
                \A n \in Created :
                    /\ events'[n].task_group = events[calls'[c].self].task_group
                    /\ \A cls \in Classes :
                          InGroupKey(cls, calls'[c].self) => (InGroupKey(cls, n))']_vars

-----------------------------------------------------------------------------
(* Claims about Routines sharing a task_group (specification SpecGroup) *)

\* C14: the policy check of schedule() considers exactly the stored Events
\* with the class's task_group and the same data_hash, whatever their
\* trigger_name, when the class has a task_group, and exactly the Events
\* with its trigger_name and the same data_hash when it has none.
C14_GroupKey ==
    [][\A c \in Callers :
          ChecksSchedule(c) =>
              LET b == conf[calls'[c].cls].behavior
                  g == conf[calls'[c].cls].task_group
                  considered ==
                      { i \in DOMAIN events :
                          /\ events[i].data_hash = hash_data(marshal_data(calls'[c].data))
                          /\ IF g # NoGroup THEN events[i].task_group = g
                             ELSE events[i].trigger_name = conf[calls'[c].cls].trigger_name }
              IN /\ b = SCHEDULE_ONCE =>
                      (Rejected(calls'[c]) <=>
                          \E i \in considered : events[i].datetime_processed = None)
                 /\ b = RUN_ONCE =>
                      (Rejected(calls'[c]) <=>
                          \E i \in considered : events[i].status = SUCCESSFUL)
                 /\ b = RUN_AND_SCHEDULE_ONCE =>
                      (Rejected(calls'[c]) <=>
                          \E i \in considered : events[i].status \in {SUCCESSFUL, CREATED})
                 /\ b = LAST_ONLY =>
                      { calls'[c].waiting[k].pk : k \in DOMAIN calls'[c].waiting }
                        = { i \in considered : events[i].datetime_processed = None }]_vars

\* C14 witness: a Routine's schedule() was rejected, and the only stored
\* Event is one of the other Routine (another trigger_name) in its task_group
C14_Witness ==
    \E c \in Callers :
        /\ Rejected(calls[c])
        /\ conf[calls[c].cls].task_group = "g"
        /\ DOMAIN events # {}
        /\ \A i \in DOMAIN events :
              /\ events[i].trigger_name # conf[calls[c].cls].trigger_name
              /\ events[i].task_group = "g"
              /\ events[i].data_hash = hash_data(marshal_data(calls[c].data))

-----------------------------------------------------------------------------
(* Claims about concurrent schedule() calls (specification SpecRace) *)

\* C23: the existence check of schedule() and its insert are separate steps:
\* a SCHEDULE_ONCE or RUN_AND_SCHEDULE_ONCE call passes its check whenever no
\* stored Event is a duplicate, whatever other calls have checked and not yet
\* inserted, and a call that passed always inserts its Event; so two calls
\* with identical args that both check before either inserts both create an
\* Event.
C23_CheckThenInsert ==
    [][\A c \in RaceCallers :
          /\ (/\ ChecksSchedule(c)
              /\ \/ /\ conf[calls'[c].cls].behavior = SCHEDULE_ONCE
                    /\ \A i \in SameKeyAndHash(c) : events[i].datetime_processed # None
                 \/ /\ conf[calls'[c].cls].behavior = RUN_AND_SCHEDULE_ONCE
                    /\ \A i \in SameKeyAndHash(c) :
                          events[i].status \notin {SUCCESSFUL, CREATED}) =>
                calls'[c].pc = "create"
          /\ (calls[c].pc = "create" /\ calls'[c] # calls[c]) =>
                /\ calls'[c].pc = "done" /\ calls'[c].result = "Event"
                /\ Created = {calls'[c].event}
                /\ events'[calls'[c].event].status = CREATED
                /\ events'[calls'[c].event].datetime_processed = None]_vars

\* C23 witness: two unprocessed CREATED Events of one SCHEDULE_ONCE or
\* RUN_AND_SCHEDULE_ONCE Routine with the same group key and data_hash are
\* stored, the second call having just inserted
C23_Witness ==
    /\ \E cls \in Classes : conf[cls].behavior \in {SCHEDULE_ONCE, RUN_AND_SCHEDULE_ONCE}
    /\ \E c \in RaceCallers, i \in DOMAIN events :
          /\ calls[c].pc = "done" /\ calls[c].result = "Event"
          /\ i # calls[c].event
          /\ InGroupKey(calls[c].cls, i) /\ InGroupKey(calls[c].cls, calls[c].event)
          /\ events[i].data_hash = events[calls[c].event].data_hash
          /\ events[i].status = CREATED /\ events[i].datetime_processed = None
          /\ events[calls[c].event].status = CREATED
          /\ events[calls[c].event].datetime_processed = None

-----------------------------------------------------------------------------
(* Claims about the registries (specification SpecRegistry) *)

\* what a registration must do to a registry: fail on a missing trigger_name,
\* else succeed and leave the name bound to the type just registered, and in
\* both cases keep every other name's entry
RegistrationContract(old, new, call) ==
    /\ call.key = None => call.result = "NoRoutineTriggerException" /\ new = old
    /\ call.key # None =>
          /\ call.result = "ok"
          /\ call.key \in DOMAIN new /\ new[call.key] = call.path
    /\ \A k \in (DOMAIN old) \ {call.key} : k \in DOMAIN new /\ new[k] = old[k]

\* what a lookup must do: return the type bound to the name, or fail with
\* UnknownTriggerException, and change nothing
LookupContract(old, new, call) ==
    /\ new = old
    /\ call.result = IF call.key \in DOMAIN old THEN old[call.key]
                     ELSE "UnknownTriggerException"

\* C24: registering a Routine type whose trigger_name is already registered
\* is non-fatal and the lookup of that name then returns the type registered
\* last; registering a type with no trigger_name fails with
\* NoRoutineTriggerException; the lookup of an unregistered name fails with
\* UnknownTriggerException; a registration never removes or alters the
\* entries of other names.
C24_RegistryContract ==
    [][LET call == registries'.call
       IN /\ call.op = "Runner.register" =>
                RegistrationContract(registries.runner, registries'.runner, call)
          /\ call.op = "scheduled" =>
                RegistrationContract(registries.scheduled, registries'.scheduled, call)
          /\ call.op = "Runner.get_routine_class" =>
                LookupContract(registries.runner, registries'.runner, call)
          /\ call.op = "Event.get_routine_class" =>
                LookupContract(registries.scheduled, registries'.scheduled, call)]_vars

-----------------------------------------------------------------------------
(* Claims about chains of retries (specification SpecChain) *)

\* C25: for a RUN_AND_SCHEDULE_ONCE Routine, with or without a task_group,
\* over any sequence of non-interleaved schedule() and process() calls,
\* retries created by process() included, at most one of the Routine's
\* Events with given args ever reaches SUCCESSFUL.
C25_AtMostOneSuccess ==
    \A cls \in Classes :
        conf[cls].behavior = RUN_AND_SCHEDULE_ONCE =>
            \A i, j \in DOMAIN events :
                (/\ events[i].trigger_name = conf[cls].trigger_name
                 /\ events[j].trigger_name = conf[cls].trigger_name
                 /\ args(events[i]) = args(events[j])
                 /\ events[i].status = SUCCESSFUL
                 /\ events[j].status = SUCCESSFUL) => i = j

====
